---- MODULE Spec2Model ----
(***************************************************************************)
(* Model of ai_breakup_recovery_agent/main.py: the `handler` coroutine,    *)
(* its lazy one-time initialization under `_init_lock`, the extraction of  *)
(* the user text / mode / images from the last message, and the dispatch   *)
(* to one of the five runners.                                             *)
(*                                                                         *)
(* A Python str is a sequence of atoms (TLA+ strings).  For plain text the *)
(* atoms are the whitespace-delimited words; for JSON-looking content the  *)
(* atoms are the lexical pieces: braces, brackets, colon, comma, the quote *)
(* character and the words between quotes.  A Python value is a record     *)
(* [k, s]: k = "str" (s the atoms), "none" (None) or "list" (s the         *)
(* elements).                                                              *)
(***************************************************************************)
EXTENDS Integers, Sequences, FiniteSets, TLC

\* Number of handler coroutines that may be in flight in the event loop.
NumRequests == 2

Requests == 1..NumRequests

-----------------------------------------------------------------------------
\* Python values

Str(s) == [k |-> "str", s |-> s]
None == [k |-> "none", s |-> <<>>]
List(s) == [k |-> "list", s |-> s]

\* Python truthiness of a value: None, "" and [] are falsy.
Truthy(v) == v.k # "none" /\ v.s # <<>>

-----------------------------------------------------------------------------
\* Lexical atoms of JSON-looking content

LB == "{"
RB == "}"
LBR == "["
RBR == "]"
COLON == ":"
COMMA == ","
Q == "\""
NULL == "null"
EOF == "<eof>"

\* Array elements (the `images` entries).  FILE stands for a JSON object
\* {"name": ..., "content": ..., "type": ...}; NUM for a JSON number.
FILE == "{file}"
NUM == "7"

At(toks, i) == IF i >= 1 /\ i <= Len(toks) THEN toks[i] ELSE EOF

Bad == [ok |-> FALSE, val |-> None, next |-> 0]

\* A string literal starting at the quote toks[i]: the atoms up to the
\* closing quote.
RECURSIVE ScanString(_, _, _)
ScanString(toks, i, acc) ==
    IF At(toks, i) = EOF THEN Bad
    ELSE IF toks[i] = Q THEN [ok |-> TRUE, val |-> Str(acc), next |-> i + 1]
    ELSE ScanString(toks, i + 1, Append(acc, toks[i]))

\* The elements of an array after "[": element (, element)* "]", or "]".
RECURSIVE ScanArray(_, _, _)
ScanArray(toks, i, acc) ==
    IF At(toks, i) \in {FILE, NUM}
    THEN IF At(toks, i + 1) = COMMA /\ At(toks, i + 2) \in {FILE, NUM}
         THEN ScanArray(toks, i + 2, Append(acc, toks[i]))
         ELSE IF At(toks, i + 1) = RBR
              THEN [ok |-> TRUE, val |-> List(Append(acc, toks[i])), next |-> i + 2]
              ELSE Bad
    ELSE Bad

ScanValue(toks, i) ==
    CASE At(toks, i) = Q -> ScanString(toks, i + 1, <<>>)
      [] At(toks, i) = NULL -> [ok |-> TRUE, val |-> None, next |-> i + 1]
      [] At(toks, i) = LBR ->
            IF At(toks, i + 1) = RBR
            THEN [ok |-> TRUE, val |-> List(<<>>), next |-> i + 2]
            ELSE ScanArray(toks, i + 1, <<>>)
      [] OTHER -> Bad

\* The members of an object after "{": pair (, pair)* "}".  The result is
\* the sequence of <<key, value>> pairs in source order.
RECURSIVE ScanPairs(_, _, _)
ScanPairs(toks, i, acc) ==
    IF At(toks, i) # Q THEN [ok |-> FALSE, obj |-> <<>>]
    ELSE LET key == ScanString(toks, i + 1, <<>>) IN
         IF ~key.ok \/ At(toks, key.next) # COLON THEN [ok |-> FALSE, obj |-> <<>>]
         ELSE LET v == ScanValue(toks, key.next + 1) IN
              IF ~v.ok THEN [ok |-> FALSE, obj |-> <<>>]
              ELSE LET acc2 == Append(acc, <<key.val.s, v.val>>) IN
                   IF At(toks, v.next) = COMMA THEN ScanPairs(toks, v.next + 1, acc2)
                   ELSE IF At(toks, v.next) = RB /\ v.next = Len(toks)
                        THEN [ok |-> TRUE, obj |-> acc2]
                        ELSE [ok |-> FALSE, obj |-> <<>>]

\* json.loads on content that starts with "{": ok = FALSE is JSONDecodeError.
json_loads(content) ==
    IF At(content, 1) # LB THEN [ok |-> FALSE, obj |-> <<>>]
    ELSE IF At(content, 2) = RB
         THEN [ok |-> Len(content) = 2, obj |-> <<>>]
         ELSE ScanPairs(content, 2, <<>>)

\* dict.get(key, default): with duplicate keys json.loads keeps the last.
RECURSIVE dict_get(_, _, _)
dict_get(obj, key, default) ==
    IF obj = <<>> THEN default
    ELSE LET last == obj[Len(obj)] IN
         IF last[1] = key THEN last[2]
         ELSE dict_get(SubSeq(obj, 1, Len(obj) - 1), key, default)

-----------------------------------------------------------------------------
\* Messages and the extraction of handler's locals (main.py 431-453)

msg_get(m, key, default) == IF key \in DOMAIN m THEN m[key] ELSE default

startswith(s, atom) == At(s, 1) = atom
endswith(s, atom) == At(s, Len(s)) = atom

DefaultLocals ==
    [user_input |-> Str(<<>>), images_data |-> List(<<>>), mode |-> Str(<<"team">>)]

\* Extract reading the last message of role "user" instead of the last
\* message.
RECURSIVE Extract_LastUserMessage(_)
Extract_LastUserMessage(msgs) ==
    IF Len(msgs) > 0
    THEN LET last_message == msgs[Len(msgs)] IN
         IF msg_get(last_message, "role", "") = "user"
         THEN LET content == msg_get(last_message, "content", <<>>) IN
              IF startswith(content, LB) /\ endswith(content, RB)
              THEN LET parsed == json_loads(content) IN
                   IF parsed.ok
                   THEN [user_input |-> dict_get(parsed.obj, <<"text">>, Str(<<>>)),
                         images_data |-> dict_get(parsed.obj, <<"images">>, List(<<>>)),
                         mode |-> dict_get(parsed.obj, <<"mode">>, Str(<<"team">>))]
                   ELSE [DefaultLocals EXCEPT !.user_input = Str(content)]
              ELSE [DefaultLocals EXCEPT !.user_input = Str(content)]
         ELSE Extract_LastUserMessage(SubSeq(msgs, 1, Len(msgs) - 1))
    ELSE DefaultLocals

\* Extract with "therapist" as the default mode.
Extract_DefaultTherapist(msgs) ==
    LET default == [DefaultLocals EXCEPT !.mode = Str(<<"therapist">>)] IN
    IF Len(msgs) > 0
    THEN LET last_message == msgs[Len(msgs)] IN
         IF msg_get(last_message, "role", "") = "user"
         THEN LET content == msg_get(last_message, "content", <<>>) IN
              IF startswith(content, LB) /\ endswith(content, RB)
              THEN LET parsed == json_loads(content) IN
                   IF parsed.ok
                   THEN [user_input |-> dict_get(parsed.obj, <<"text">>, Str(<<>>)),
                         images_data |-> dict_get(parsed.obj, <<"images">>, List(<<>>)),
                         mode |-> dict_get(parsed.obj, <<"mode">>, Str(<<"therapist">>))]
                   ELSE [default EXCEPT !.user_input = Str(content)]
              ELSE [default EXCEPT !.user_input = Str(content)]
         ELSE default
    ELSE default

\* The word heuristic of a chat front end: plain text selects the team only
\* when it names a plan or a recovery or is longer than 20 words, and the
\* therapist otherwise.
Lower(w) == CASE w = "Recovery" -> "recovery" [] w = "Plan" -> "plan" [] OTHER -> w
WantsFullReport(text) ==
    \/ \E i \in DOMAIN text : Lower(text[i]) \in {"plan", "recovery"}
    \/ Len(text) > 20

Extract_WordHeuristic(msgs) ==
    IF Len(msgs) > 0
    THEN LET last_message == msgs[Len(msgs)] IN
         IF msg_get(last_message, "role", "") = "user"
         THEN LET content == msg_get(last_message, "content", <<>>)
                  plain == [DefaultLocals EXCEPT
                               !.user_input = Str(content),
                               !.mode = IF WantsFullReport(content) THEN Str(<<"team">>)
                                        ELSE Str(<<"therapist">>)] IN
              IF startswith(content, LB) /\ endswith(content, RB)
              THEN LET parsed == json_loads(content) IN
                   IF parsed.ok
                   THEN [user_input |-> dict_get(parsed.obj, <<"text">>, Str(<<>>)),
                         images_data |-> dict_get(parsed.obj, <<"images">>, List(<<>>)),
                         mode |-> dict_get(parsed.obj, <<"mode">>, Str(<<"team">>))]
                   ELSE plain
              ELSE plain
         ELSE DefaultLocals
    ELSE DefaultLocals

\* Extract with a content that fails to parse dropped: user_input stays
\* empty.
Extract_MalformedIsEmpty(msgs) ==
    IF Len(msgs) > 0
    THEN LET last_message == msgs[Len(msgs)] IN
         IF msg_get(last_message, "role", "") = "user"
         THEN LET content == msg_get(last_message, "content", <<>>) IN
              IF startswith(content, LB) /\ endswith(content, RB)
              THEN LET parsed == json_loads(content) IN
                   IF parsed.ok
                   THEN [user_input |-> dict_get(parsed.obj, <<"text">>, Str(<<>>)),
                         images_data |-> dict_get(parsed.obj, <<"images">>, List(<<>>)),
                         mode |-> dict_get(parsed.obj, <<"mode">>, Str(<<"team">>))]
                   ELSE DefaultLocals
              ELSE [DefaultLocals EXCEPT !.user_input = Str(content)]
         ELSE DefaultLocals
    ELSE DefaultLocals

\* Extract reading the first message of the list instead of the last.
Extract_FirstMessage(msgs) ==
    IF Len(msgs) > 0
    THEN LET last_message == msgs[1] IN
         IF msg_get(last_message, "role", "") = "user"
         THEN LET content == msg_get(last_message, "content", <<>>) IN
              IF startswith(content, LB) /\ endswith(content, RB)
              THEN LET parsed == json_loads(content) IN
                   IF parsed.ok
                   THEN [user_input |-> dict_get(parsed.obj, <<"text">>, Str(<<>>)),
                         images_data |-> dict_get(parsed.obj, <<"images">>, List(<<>>)),
                         mode |-> dict_get(parsed.obj, <<"mode">>, Str(<<"team">>))]
                   ELSE [DefaultLocals EXCEPT !.user_input = Str(content)]
              ELSE [DefaultLocals EXCEPT !.user_input = Str(content)]
         ELSE DefaultLocals
    ELSE DefaultLocals

Extract(msgs) ==
    IF Len(msgs) > 0
    THEN LET last_message == msgs[Len(msgs)] IN
         IF msg_get(last_message, "role", "") = "user"
         THEN LET content == msg_get(last_message, "content", <<>>) IN
              IF startswith(content, LB) /\ endswith(content, RB)
              THEN LET parsed == json_loads(content) IN
                   IF parsed.ok
                   THEN [user_input |-> dict_get(parsed.obj, <<"text">>, Str(<<>>)),
                         images_data |-> dict_get(parsed.obj, <<"images">>, List(<<>>)),
                         mode |-> dict_get(parsed.obj, <<"mode">>, Str(<<"team">>))]
                   ELSE [DefaultLocals EXCEPT !.user_input = Str(content)]
              ELSE [DefaultLocals EXCEPT !.user_input = Str(content)]
         ELSE DefaultLocals
    ELSE DefaultLocals

NoValidMessage == Str(<<"No valid user message found">>)

-----------------------------------------------------------------------------
\* Inputs: the contents and message lists handler is called with

JStr(s) == <<Q>> \o s \o <<Q>>
Pair(key, val) == JStr(<<key>>) \o <<COLON>> \o val
Obj1(p1) == <<LB>> \o p1 \o <<RB>>
Obj2(p1, p2) == <<LB>> \o p1 \o <<COMMA>> \o p2 \o <<RB>>

HelpText == <<"I", "need", "help">>
TextPair == Pair("text", JStr(HelpText))
ModePayload(m) == Obj2(TextPair, Pair("mode", JStr(<<m>>)))

LongText == [i \in 1..21 |-> "word"]

PlainContents ==
    { <<"Test">>,
      <<"I", "need", "help", "moving", "on">>,
      <<"my", "Recovery", "plan">>,
      LongText,
      <<>> }

ModeNames == {"therapist", "closure", "routine", "honest", "team",
              "planner", "honesty", "Therapist"}

JsonContents ==
    { ModePayload(m) : m \in ModeNames }
    \cup { Obj1(TextPair),
           Obj2(TextPair, Pair("mode", <<NULL>>)),
           Obj2(Pair("mode", JStr(<<"closure">>)), TextPair),
           Obj1(Pair("mode", JStr(<<"closure">>))),
           Obj2(Pair("text", JStr(<<>>)), Pair("mode", JStr(<<"closure">>))),
           Obj2(Pair("text", <<NULL>>), Pair("mode", JStr(<<"closure">>))),
           <<LB, RB>>,
           Obj2(TextPair, Pair("images", <<LBR, RBR>>)),
           Obj2(TextPair, Pair("images", <<LBR, FILE, RBR>>)),
           Obj2(TextPair, Pair("images", <<LBR, FILE, COMMA, NUM, RBR>>)),
           Obj2(TextPair, Pair("images", JStr(<<"a.png">>))) }

MalformedContents ==
    { <<LB, "oops", RB>>,
      <<LB>> \o TextPair \o <<COMMA, RB>>,
      <<LB>> \o Pair("text", <<"help">>) \o <<RB>> }

Contents == PlainContents \cup JsonContents \cup MalformedContents

User(c) == [role |-> "user", content |-> c]
System(c) == [role |-> "system", content |-> c]

\* The message lists of the first request: every content as a single user
\* message, and lists that differ in what precedes or follows it.
AllMessageLists ==
    { <<>> }
    \cup { <<User(c)>> : c \in Contents }
    \cup { <<System(<<"System", "message">>)>>,
           <<[role |-> "user"]>>,
           <<[content |-> <<"Test">>]>>,
           <<System(<<"You", "are", "helpful">>), User(<<"Test">>)>>,
           <<User(<<"Test">>), System(<<"System", "message">>)>>,
           <<User(<<"Test">>), [role |-> "assistant", content |-> <<"ok">>]>>,
           <<User(ModePayload("closure")), User(<<"Test">>)>>,
           <<User(<<"Test">>), User(ModePayload("closure"))>> }

\* The other requests race with it on a few of them.
RaceMessageLists == { <<>>, <<User(<<"Test">>)>> }

MessageLists(r) == IF r = 1 THEN AllMessageLists ELSE RaceMessageLists

-----------------------------------------------------------------------------
\* State

VARIABLES
    _initialized,            \* main.py 49
    _init_lock,              \* main.py 50: 0 when unlocked, else the holder
    api_key,                 \* main.py 47, set once by main() or left empty
    therapist_agent,         \* main.py 40-44: "None" or the model it was built on
    closure_agent,
    routine_planner_agent,
    brutal_honesty_agent,
    recovery_team,
    pc,                      \* where each handler coroutine stands
    messages,                \* handler's argument
    user_input,              \* handler's locals
    images_data,
    mode,
    images,
    result,                  \* handler's return value, Pending until it returns
    init_calls,              \* history: executions of initialize_agents
    init_run,                \* history: the pass each request ran itself
    waited_on_fail,          \* history: was waiting on the lock when a pass failed
    calls                    \* history: the runner calls each request made

globals == <<_initialized, _init_lock, api_key>>
agents == <<therapist_agent, closure_agent, routine_planner_agent,
            brutal_honesty_agent, recovery_team>>
locals == <<messages, user_input, images_data, mode, images>>
history == <<init_calls, init_run, waited_on_fail, calls>>
vars == <<globals, agents, pc, locals, result, history>>

Pending == [k |-> "pending", s |-> <<>>]

ApiKeys == { <<>>, <<"AIza", "key">>, <<"sk-or", "key">> }

Init ==
    /\ _initialized = FALSE
    /\ _init_lock = 0
    /\ api_key \in ApiKeys
    /\ therapist_agent = "None"
    /\ closure_agent = "None"
    /\ routine_planner_agent = "None"
    /\ brutal_honesty_agent = "None"
    /\ recovery_team = "None"
    /\ pc = [r \in Requests |-> "idle"]
    /\ messages = [r \in Requests |-> <<>>]
    /\ user_input = [r \in Requests |-> Str(<<>>)]
    /\ images_data = [r \in Requests |-> List(<<>>)]
    /\ mode = [r \in Requests |-> Str(<<"team">>)]
    /\ images = [r \in Requests |-> <<>>]
    /\ result = [r \in Requests |-> Pending]
    /\ init_calls = 0
    /\ init_run = [r \in Requests |-> "none"]
    /\ waited_on_fail = [r \in Requests |-> FALSE]
    /\ calls = [r \in Requests |-> <<>>]

-----------------------------------------------------------------------------
\* handler, lines 431-456: extract the locals; return at once when there is
\* no user text, else go for the lock.

Handler(r, msgs) ==
    /\ pc[r] = "idle"
    /\ LET x == Extract(msgs) IN
       /\ messages' = [messages EXCEPT ![r] = msgs]
       /\ user_input' = [user_input EXCEPT ![r] = x.user_input]
       /\ images_data' = [images_data EXCEPT ![r] = x.images_data]
       /\ mode' = [mode EXCEPT ![r] = x.mode]
       /\ IF ~Truthy(x.user_input)
          THEN /\ result' = [result EXCEPT ![r] = NoValidMessage]
               /\ pc' = [pc EXCEPT ![r] = "done"]
          ELSE /\ result' = result
               /\ pc' = [pc EXCEPT ![r] = "acquire"]
    /\ UNCHANGED <<globals, agents, images, history>>

\* EnterInitLock without the mutual exclusion: the flag is tested and
\* initialize_agents awaited whether or not another coroutine is inside.
EnterInitLock_NoMutex(r) ==
    /\ pc[r] = "acquire"
    /\ IF _initialized
       THEN /\ pc' = [pc EXCEPT ![r] = "process"]
            /\ UNCHANGED <<_init_lock, init_calls>>
       ELSE /\ pc' = [pc EXCEPT ![r] = "init"]
            /\ _init_lock' = r
            /\ init_calls' = init_calls + 1
    /\ UNCHANGED <<_initialized, api_key, agents, locals, result, init_run,
                   waited_on_fail, calls>>

\* EnterInitLock without the test of the flag: every request that is
\* granted the lock awaits initialize_agents.
EnterInitLock_NoFlagCheck(r) ==
    /\ pc[r] = "acquire"
    /\ _init_lock = 0
    /\ pc' = [pc EXCEPT ![r] = "init"]
    /\ _init_lock' = r
    /\ init_calls' = init_calls + 1
    /\ UNCHANGED <<_initialized, api_key, agents, locals, result, init_run,
                   waited_on_fail, calls>>

\* handler, lines 459-463: `async with _init_lock` is granted, and the flag is
\* tested under the lock; the block is left at once when it is set, else
\* initialize_agents is awaited with the lock held.
EnterInitLock(r) ==
    /\ pc[r] = "acquire"
    /\ _init_lock = 0
    /\ IF _initialized
       THEN /\ pc' = [pc EXCEPT ![r] = "process"]
            /\ UNCHANGED <<_init_lock, init_calls>>
       ELSE /\ pc' = [pc EXCEPT ![r] = "init"]
            /\ _init_lock' = r
            /\ init_calls' = init_calls + 1
    /\ UNCHANGED <<_initialized, api_key, agents, locals, result, init_run,
                   waited_on_fail, calls>>

-----------------------------------------------------------------------------
\* Exceptions and returns of the functions handler awaits

Raise(exc) == [raised |-> TRUE, exc |-> exc, val |-> None]
Return(v) == [raised |-> FALSE, exc |-> <<>>, val |-> v]

\* f"Error: {e}"
ErrorString(exc) == Str(<<"Error: ">> \o exc)

\* InitErrorString without the phrase that names the initialization.
InitErrorString_Bare(exc) == ErrorString(exc)

\* f"Failed to initialize agents: {e}" inside f"Error: {error_msg}"
InitErrorString(exc) == ErrorString(<<"Failed to initialize agents: ">> \o exc)

-----------------------------------------------------------------------------
\* initialize_agents (main.py 96-238).  The constructors are external: `at`
\* names the one that raises ("model" for one before the first agent, "none"
\* when all succeed).  The globals assigned before it keep their new value.

BuildOrder == <<"therapist_agent", "closure_agent", "routine_planner_agent",
                "brutal_honesty_agent", "recovery_team">>

FailPoints == {"model", "none"} \cup {BuildOrder[i] : i \in DOMAIN BuildOrder}

BuiltBefore(at) ==
    CASE at = "model" -> {}
      [] at = "none" -> {BuildOrder[i] : i \in DOMAIN BuildOrder}
      [] OTHER -> {BuildOrder[i] : i \in {j \in DOMAIN BuildOrder :
                        \E k \in DOMAIN BuildOrder : BuildOrder[k] = at /\ j < k}}

initialize_agents(key, at) ==
    IF key = <<>>
    THEN [raised |-> TRUE, built |-> {}, model |-> "None",
          exc |-> <<"API key must be set before initializing agents">>]
    ELSE [raised |-> at # "none", built |-> BuiltBefore(at),
          model |-> IF startswith(key, "AIza") THEN "Gemini" ELSE "OpenRouter",
          exc |-> <<"constructor failed">>]

Assign(name, old, out) == IF name \in out.built THEN out.model ELSE old

\* InitializeAgentsReturns with the failure handed to every coroutine waiting
\* on the lock, none of which then runs a pass of its own.
InitializeAgentsReturns_Broadcast(r, at) ==
    /\ pc[r] = "init"
    /\ LET out == initialize_agents(api_key, at) IN
       /\ therapist_agent' = Assign("therapist_agent", therapist_agent, out)
       /\ closure_agent' = Assign("closure_agent", closure_agent, out)
       /\ routine_planner_agent' = Assign("routine_planner_agent", routine_planner_agent, out)
       /\ brutal_honesty_agent' = Assign("brutal_honesty_agent", brutal_honesty_agent, out)
       /\ recovery_team' = Assign("recovery_team", recovery_team, out)
       /\ IF out.raised
          THEN /\ result' = [q \in Requests |->
                                IF q = r \/ pc[q] = "acquire"
                                THEN InitErrorString(out.exc) ELSE result[q]]
               /\ pc' = [q \in Requests |->
                            IF q = r \/ pc[q] = "acquire" THEN "done" ELSE pc[q]]
               /\ init_run' = [init_run EXCEPT ![r] = "failed"]
               /\ waited_on_fail' =
                     [q \in Requests |-> waited_on_fail[q] \/ pc[q] = "acquire"]
               /\ UNCHANGED _initialized
          ELSE /\ _initialized' = TRUE
               /\ pc' = [pc EXCEPT ![r] = "process"]
               /\ init_run' = [init_run EXCEPT ![r] = "ok"]
               /\ UNCHANGED <<result, waited_on_fail>>
    /\ _init_lock' = 0
    /\ UNCHANGED <<api_key, locals, init_calls, calls>>

\* InitializeAgentsReturns with the flag set whether or not the pass raised.
InitializeAgentsReturns_FlagAlways(r, at) ==
    /\ pc[r] = "init"
    /\ LET out == initialize_agents(api_key, at) IN
       /\ therapist_agent' = Assign("therapist_agent", therapist_agent, out)
       /\ closure_agent' = Assign("closure_agent", closure_agent, out)
       /\ routine_planner_agent' = Assign("routine_planner_agent", routine_planner_agent, out)
       /\ brutal_honesty_agent' = Assign("brutal_honesty_agent", brutal_honesty_agent, out)
       /\ recovery_team' = Assign("recovery_team", recovery_team, out)
       /\ _initialized' = TRUE
       /\ IF out.raised
          THEN /\ result' = [result EXCEPT ![r] = InitErrorString(out.exc)]
               /\ pc' = [pc EXCEPT ![r] = "done"]
               /\ init_run' = [init_run EXCEPT ![r] = "failed"]
               /\ waited_on_fail' =
                     [q \in Requests |-> waited_on_fail[q] \/ pc[q] = "acquire"]
          ELSE /\ pc' = [pc EXCEPT ![r] = "process"]
               /\ init_run' = [init_run EXCEPT ![r] = "ok"]
               /\ UNCHANGED <<result, waited_on_fail>>
    /\ _init_lock' = 0
    /\ UNCHANGED <<api_key, locals, init_calls, calls>>

\* InitializeAgentsReturns without the early return of line 469: a request
\* whose pass raised goes on to the dispatch.
InitializeAgentsReturns_FallThrough(r, at) ==
    /\ pc[r] = "init"
    /\ LET out == initialize_agents(api_key, at) IN
       /\ therapist_agent' = Assign("therapist_agent", therapist_agent, out)
       /\ closure_agent' = Assign("closure_agent", closure_agent, out)
       /\ routine_planner_agent' = Assign("routine_planner_agent", routine_planner_agent, out)
       /\ brutal_honesty_agent' = Assign("brutal_honesty_agent", brutal_honesty_agent, out)
       /\ recovery_team' = Assign("recovery_team", recovery_team, out)
       /\ pc' = [pc EXCEPT ![r] = "process"]
       /\ IF out.raised
          THEN /\ init_run' = [init_run EXCEPT ![r] = "failed"]
               /\ waited_on_fail' =
                     [q \in Requests |-> waited_on_fail[q] \/ pc[q] = "acquire"]
               /\ UNCHANGED <<_initialized, result>>
          ELSE /\ _initialized' = TRUE
               /\ init_run' = [init_run EXCEPT ![r] = "ok"]
               /\ UNCHANGED <<result, waited_on_fail>>
    /\ _init_lock' = 0
    /\ UNCHANGED <<api_key, locals, init_calls, calls>>

\* InitializeAgentsReturns with the lock kept when the pass raises: the early
\* return does not release it.
InitializeAgentsReturns_KeepLockOnFail(r, at) ==
    /\ pc[r] = "init"
    /\ LET out == initialize_agents(api_key, at) IN
       /\ therapist_agent' = Assign("therapist_agent", therapist_agent, out)
       /\ closure_agent' = Assign("closure_agent", closure_agent, out)
       /\ routine_planner_agent' = Assign("routine_planner_agent", routine_planner_agent, out)
       /\ brutal_honesty_agent' = Assign("brutal_honesty_agent", brutal_honesty_agent, out)
       /\ recovery_team' = Assign("recovery_team", recovery_team, out)
       /\ IF out.raised
          THEN /\ result' = [result EXCEPT ![r] = InitErrorString(out.exc)]
               /\ pc' = [pc EXCEPT ![r] = "done"]
               /\ init_run' = [init_run EXCEPT ![r] = "failed"]
               /\ waited_on_fail' =
                     [q \in Requests |-> waited_on_fail[q] \/ pc[q] = "acquire"]
               /\ UNCHANGED <<_initialized, _init_lock>>
          ELSE /\ _initialized' = TRUE
               /\ _init_lock' = 0
               /\ pc' = [pc EXCEPT ![r] = "process"]
               /\ init_run' = [init_run EXCEPT ![r] = "ok"]
               /\ UNCHANGED <<result, waited_on_fail>>
    /\ UNCHANGED <<api_key, locals, init_calls, calls>>

\* handler, lines 463-469: initialize_agents returns or raises, and the
\* `async with` block is left, which releases the lock.
InitializeAgentsReturns(r, at) ==
    /\ pc[r] = "init"
    /\ LET out == initialize_agents(api_key, at) IN
       /\ therapist_agent' = Assign("therapist_agent", therapist_agent, out)
       /\ closure_agent' = Assign("closure_agent", closure_agent, out)
       /\ routine_planner_agent' = Assign("routine_planner_agent", routine_planner_agent, out)
       /\ brutal_honesty_agent' = Assign("brutal_honesty_agent", brutal_honesty_agent, out)
       /\ recovery_team' = Assign("recovery_team", recovery_team, out)
       /\ IF out.raised
          THEN /\ result' = [result EXCEPT ![r] = InitErrorString(out.exc)]
               /\ pc' = [pc EXCEPT ![r] = "done"]
               /\ init_run' = [init_run EXCEPT ![r] = "failed"]
               /\ waited_on_fail' =
                     [q \in Requests |-> waited_on_fail[q] \/ pc[q] = "acquire"]
               /\ UNCHANGED _initialized
          ELSE /\ _initialized' = TRUE
               /\ pc' = [pc EXCEPT ![r] = "process"]
               /\ init_run' = [init_run EXCEPT ![r] = "ok"]
               /\ UNCHANGED <<result, waited_on_fail>>
    /\ _init_lock' = 0
    /\ UNCHANGED <<api_key, locals, init_calls, calls>>

-----------------------------------------------------------------------------
\* process_images (main.py 241-289) on the `images` value of the payload.
\* Every entry comes from json.loads, so its content is never bytes: for an
\* object entry the write to the temporary file (or a missing key) raises
\* inside the per-file try and the entry is skipped (270-278); for an entry
\* that is no object, file.get in that except clause raises in turn and the
\* exception leaves process_images (282-289).  A non-list value is iterated
\* the same way and its first element is no object.

RECURSIVE process_files(_, _)
process_files(files, processed_images) ==
    IF files = <<>> THEN Return(processed_images)
    ELSE IF Head(files) = FILE
         THEN process_files(Tail(files), processed_images)
         ELSE Raise(<<"object has no attribute 'get'">>)

process_images(uploaded_files) ==
    IF ~Truthy(uploaded_files) THEN Return(<<>>)
    ELSE IF uploaded_files.k = "list" THEN process_files(uploaded_files.s, <<>>)
    ELSE Raise(<<"object has no attribute 'get'">>)

\* handler, lines 471-473 (and 488-491 when process_images raises)
ProcessImages(r) ==
    /\ pc[r] = "process"
    /\ LET out == IF Truthy(images_data[r]) THEN process_images(images_data[r])
                  ELSE Return(<<>>) IN
       IF out.raised
       THEN /\ result' = [result EXCEPT ![r] = ErrorString(out.exc)]
            /\ pc' = [pc EXCEPT ![r] = "done"]
            /\ UNCHANGED images
       ELSE /\ images' = [images EXCEPT ![r] = out.val]
            /\ pc' = [pc EXCEPT ![r] = "dispatch"]
            /\ UNCHANGED result
    /\ UNCHANGED <<globals, agents, messages, user_input, images_data, mode, history>>

-----------------------------------------------------------------------------
\* The runners (main.py 292-416).  agent.run is external: `outcome` is what it
\* does this time.  recovery_team.run runs the coordinator, which calls the
\* member agents inside the library: "member_raise" is a member's run raising
\* there, the exception leaving recovery_team.run.

Outcomes == {"raise", "text", "empty", "none", "no_content", "member_raise"}

OutcomesOf(runner) ==
    IF runner = "run_recovery_team" THEN Outcomes ELSE Outcomes \ {"member_raise"}

\* The response object of agent.run / team.run
agent_run(name, outcome) ==
    CASE outcome = "raise" ->
            [raised |-> TRUE, exc |-> <<name, " call failed">>,
             has_content |-> FALSE, content |-> None]
      [] outcome = "member_raise" ->
            [raised |-> TRUE, exc |-> <<"Closure agent", " call failed">>,
             has_content |-> FALSE, content |-> None]
      [] outcome = "text" ->
            [raised |-> FALSE, exc |-> <<>>,
             has_content |-> TRUE, content |-> Str(<<"reply of ", name>>)]
      [] outcome = "empty" ->
            [raised |-> FALSE, exc |-> <<>>, has_content |-> TRUE, content |-> Str(<<>>)]
      [] outcome = "none" ->
            [raised |-> FALSE, exc |-> <<>>, has_content |-> TRUE, content |-> None]
      [] OTHER -> [raised |-> FALSE, exc |-> <<>>, has_content |-> FALSE, content |-> None]

\* The body the four persona runners share: the None test on the global, the
\* call, and `response.content if response.content else ""`.
RunPersona(agent, name, outcome) ==
    IF agent = "None" THEN Raise(<<name, " not initialized">>)
    ELSE LET response == agent_run(name, outcome) IN
         IF response.raised THEN Raise(response.exc)
         ELSE IF ~response.has_content
              THEN Raise(<<"object has no attribute 'content'">>)
              ELSE Return(IF Truthy(response.content) THEN response.content ELSE Str(<<>>))

run_therapist_agent(outcome) == RunPersona(therapist_agent, "Therapist agent", outcome)
run_closure_agent(outcome) == RunPersona(closure_agent, "Closure agent", outcome)
run_routine_planner_agent(outcome) ==
    RunPersona(routine_planner_agent, "Routine planner agent", outcome)
run_brutal_honesty_agent(outcome) ==
    RunPersona(brutal_honesty_agent, "Brutal honesty agent", outcome)

\* run_recovery_team with every exception of the team's run caught and a
\* placeholder text returned in its place.
run_recovery_team_Placeholder(outcome) ==
    IF recovery_team = "None" THEN Raise(<<"Recovery team", " not initialized">>)
    ELSE LET response == agent_run("Recovery team", outcome) IN
         IF response.raised
         THEN Return([coordinator_response |-> Str(<<"agent error">>),
                      member_responses |-> <<>>])
         ELSE Return([coordinator_response |->
                          IF response.has_content THEN response.content
                          ELSE Str(<<"<TeamRunResponse>">>),
                      member_responses |-> <<>>])

\* run_recovery_team returns a dict; str(response) when it has no content.
run_recovery_team(outcome) ==
    IF recovery_team = "None" THEN Raise(<<"Recovery team", " not initialized">>)
    ELSE LET response == agent_run("Recovery team", outcome) IN
         IF response.raised THEN Raise(response.exc)
         ELSE Return([coordinator_response |->
                          IF response.has_content THEN response.content
                          ELSE Str(<<"<TeamRunResponse>">>),
                      member_responses |-> <<>>])

\* RunnerOf with the closure and therapist branches exchanged.
RunnerOf_Swapped(m) ==
    CASE m = Str(<<"therapist">>) -> "run_closure_agent"
      [] m = Str(<<"closure">>) -> "run_therapist_agent"
      [] m = Str(<<"routine">>) -> "run_routine_planner_agent"
      [] m = Str(<<"honest">>) -> "run_brutal_honesty_agent"
      [] OTHER -> "run_recovery_team"

\* The if/elif chain of handler, lines 476-486
RunnerOf(m) ==
    CASE m = Str(<<"therapist">>) -> "run_therapist_agent"
      [] m = Str(<<"closure">>) -> "run_closure_agent"
      [] m = Str(<<"routine">>) -> "run_routine_planner_agent"
      [] m = Str(<<"honest">>) -> "run_brutal_honesty_agent"
      [] OTHER -> "run_recovery_team"

Invoke(runner, outcome) ==
    CASE runner = "run_therapist_agent" -> run_therapist_agent(outcome)
      [] runner = "run_closure_agent" -> run_closure_agent(outcome)
      [] runner = "run_routine_planner_agent" -> run_routine_planner_agent(outcome)
      [] runner = "run_brutal_honesty_agent" -> run_brutal_honesty_agent(outcome)
      [] OTHER -> run_recovery_team(outcome)

\* What handler returns from the runner's return (477-486, 488-491)
HandlerReturn(runner, ret) ==
    IF ret.raised THEN ErrorString(ret.exc)
    ELSE IF runner = "run_recovery_team" THEN ret.val.coordinator_response
    ELSE ret.val

\* The members the Team is constructed with, in the order of lines 210-215
TeamMembers == <<"therapist_agent", "closure_agent", "routine_planner_agent",
                 "brutal_honesty_agent">>

\* RunAgent with a fan-out in team mode: the four persona runners are called
\* by handler and their texts joined in the order of the members.
RunAgent_FanOut(r, outcome) ==
    /\ pc[r] = "dispatch"
    /\ LET runner == RunnerOf(mode[r])
           ret == Invoke(runner, outcome)
           Call(f) == [runner |-> f, user_input |-> user_input[r], images |-> images[r],
                       outcome |-> "text", ret |-> Invoke(f, "text")]
           fan == <<Call("run_therapist_agent"), Call("run_closure_agent"),
                    Call("run_routine_planner_agent"), Call("run_brutal_honesty_agent")>> IN
       /\ outcome \in OutcomesOf(runner)
       /\ IF runner = "run_recovery_team"
          THEN /\ calls' = [calls EXCEPT ![r] = @ \o fan]
               /\ result' = [result EXCEPT ![r] =
                                Str(fan[1].ret.val.s \o fan[2].ret.val.s
                                    \o fan[3].ret.val.s \o fan[4].ret.val.s)]
          ELSE /\ calls' = [calls EXCEPT ![r] = Append(@,
                               [runner |-> runner, user_input |-> user_input[r],
                                images |-> images[r], outcome |-> outcome, ret |-> ret])]
               /\ result' = [result EXCEPT ![r] = HandlerReturn(runner, ret)]
    /\ pc' = [pc EXCEPT ![r] = "done"]
    /\ UNCHANGED <<globals, agents, locals, init_calls, init_run, waited_on_fail>>

\* RunAgent with the flag cleared when the runner raises.
RunAgent_ResetOnError(r, outcome) ==
    /\ pc[r] = "dispatch"
    /\ LET runner == RunnerOf(mode[r])
           ret == Invoke(runner, outcome) IN
       /\ outcome \in OutcomesOf(runner)
       /\ calls' = [calls EXCEPT ![r] = Append(@,
                       [runner |-> runner, user_input |-> user_input[r],
                        images |-> images[r], outcome |-> outcome, ret |-> ret])]
       /\ result' = [result EXCEPT ![r] = HandlerReturn(runner, ret)]
       /\ _initialized' = (_initialized /\ ~ret.raised)
    /\ pc' = [pc EXCEPT ![r] = "done"]
    /\ UNCHANGED <<_init_lock, api_key, agents, locals, init_calls, init_run,
                   waited_on_fail>>

\* handler, lines 475-491: one runner is called with (user_input, images)
RunAgent(r, outcome) ==
    /\ pc[r] = "dispatch"
    /\ LET runner == RunnerOf(mode[r])
           ret == Invoke(runner, outcome) IN
       /\ outcome \in OutcomesOf(runner)
       /\ calls' = [calls EXCEPT ![r] = Append(@,
                       [runner |-> runner, user_input |-> user_input[r],
                        images |-> images[r], outcome |-> outcome, ret |-> ret])]
       /\ result' = [result EXCEPT ![r] = HandlerReturn(runner, ret)]
    /\ pc' = [pc EXCEPT ![r] = "done"]
    /\ UNCHANGED <<globals, agents, locals, init_calls, init_run, waited_on_fail>>

-----------------------------------------------------------------------------

Next ==
    \E r \in Requests :
        \/ \E msgs \in MessageLists(r) : Handler(r, msgs)
        \/ EnterInitLock(r)
        \/ \E at \in FailPoints : InitializeAgentsReturns(r, at)
        \/ ProcessImages(r)
        \/ \E outcome \in Outcomes : RunAgent(r, outcome)

Spec == Init /\ [][Next]_vars

\* The event loop runs every coroutine that is ready, every awaited call
\* returns or raises, and asyncio.Lock grants a released lock to a waiter (in
\* the order of arrival).  Nothing obliges a caller to start a request.
FairSpec ==
    /\ Spec
    /\ \A r \in Requests :
          /\ WF_vars(EnterInitLock(r))
          /\ WF_vars(\E at \in FailPoints : InitializeAgentsReturns(r, at))
          /\ WF_vars(ProcessImages(r))
          /\ WF_vars(\E outcome \in Outcomes : RunAgent(r, outcome))

-----------------------------------------------------------------------------
\* Vocabulary of the properties

\* r has left the `async with _init_lock` block towards the dispatch
PastLock(r) == pc[r] \in {"process", "dispatch"} \/ calls[r] # <<>>

IsPrefix(p, s) == Len(p) <= Len(s) /\ SubSeq(s, 1, Len(p)) = p

IsInitError(v) ==
    v.k = "str" /\ IsPrefix(<<"Error: ", "Failed to initialize agents: ">>, v.s)

AllAgentsBuilt ==
    /\ therapist_agent # "None"
    /\ closure_agent # "None"
    /\ routine_planner_agent # "None"
    /\ brutal_honesty_agent # "None"
    /\ recovery_team # "None"

AgentOf(runner) ==
    CASE runner = "run_therapist_agent" -> therapist_agent
      [] runner = "run_closure_agent" -> closure_agent
      [] runner = "run_routine_planner_agent" -> routine_planner_agent
      [] runner = "run_brutal_honesty_agent" -> brutal_honesty_agent
      [] OTHER -> recovery_team

NotInitializedRaised(call) ==
    call.ret.raised /\ Len(call.ret.exc) = 2 /\ call.ret.exc[2] = " not initialized"

-----------------------------------------------------------------------------
\* C1: when no initialization pass fails, concurrent requests with user text
\* execute initialize_agents exactly once in total: one request runs the pass
\* under the lock, and every other request that gets past the lock found
\* _initialized true and ran none.
C1_InitializedOnce ==
    (\A r \in Requests : init_run[r] # "failed") =>
        /\ init_calls <= 1
        /\ Cardinality({r \in Requests : pc[r] = "init" \/ init_run[r] = "ok"}) = init_calls
        /\ \A r \in Requests :
              PastLock(r) => /\ init_calls = 1
                             /\ _initialized
                             /\ \E q \in Requests : init_run[q] = "ok"

\* Every request is in flight past the lock at the same time, after one pass.
C1_Witness ==
    /\ \A r \in Requests : pc[r] \in {"process", "dispatch"}
    /\ init_calls = 1
    /\ Cardinality({r \in Requests : init_run[r] = "none"}) = NumRequests - 1

\* C2 (as stated): a request that was waiting on the lock while a pass failed
\* runs no pass of its own and returns that failure.
C2_WaitersShareTheFailure ==
    \A q \in Requests :
        waited_on_fail[q] =>
            /\ pc[q] # "init"
            /\ init_run[q] = "none"
            /\ (pc[q] = "done" => IsInitError(result[q]))

\* C2 (amended): a failed pass is returned only to the request that ran it;
\* passes never overlap; a request that waited during a failed pass gets past
\* the lock only after a successful pass, its own or a later one of another
\* request, so it returns an initialization failure only if its own pass
\* failed.
C2_EachWaiterRetries ==
    /\ Cardinality({r \in Requests : pc[r] = "init"}) <= 1
    /\ \A r \in Requests :
          /\ (pc[r] = "init" <=> _init_lock = r)
          /\ (IsInitError(result[r]) <=> init_run[r] = "failed")
          /\ (waited_on_fail[r] /\ PastLock(r)) =>
                /\ _initialized
                /\ init_run[r] \in {"ok", "none"}
                /\ \E q \in Requests : init_run[q] = "ok"

\* Two racing requests with different outcomes: the pass of one failed while
\* the other waited, and the waiter's own pass succeeded.
C2_Witness ==
    \E r, q \in Requests :
        /\ init_run[r] = "failed"
        /\ IsInitError(result[r])
        /\ waited_on_fail[q]
        /\ init_run[q] = "ok"
        /\ PastLock(q)

\* C3: when a pass raises, the lock is released with _initialized still false;
\* while the flag is false every request that is granted the lock runs a pass
\* again; a pass that succeeds sets the flag.
C3_RetryAfterFailure ==
    [][\A r \in Requests :
          /\ (pc[r] = "init" /\ pc'[r] = "done") =>
                /\ ~_initialized'
                /\ _init_lock' = 0
                /\ init_run'[r] = "failed"
          /\ (pc[r] = "acquire" /\ pc'[r] # "acquire" /\ ~_initialized) =>
                /\ pc'[r] = "init"
                /\ init_calls' = init_calls + 1
          /\ (pc[r] = "init" /\ pc'[r] = "process") =>
                /\ _initialized'
                /\ _init_lock' = 0
          /\ ((\A q \in Requests : init_run'[q] # "ok") => ~_initialized')
      ]_vars

\* A request that arrived after a failed pass ran the pass again, it
\* succeeded, and the process is Ready.
C3_Witness ==
    \E r, q \in Requests :
        /\ init_run[r] = "failed"
        /\ ~waited_on_fail[q]
        /\ init_run[q] = "ok"
        /\ _initialized
        /\ init_calls >= 2

\* C4: _initialized never goes from true back to false.
C4_ReadyIsTerminal == [][_initialized => _initialized']_vars

\* Ready, after a failed pass earlier and a runner that raised since.
C4_Witness ==
    /\ _initialized
    /\ \E r \in Requests : init_run[r] = "failed"
    /\ \E r \in Requests : calls[r] # <<>> /\ calls[r][1].ret.raised

\* C5: a request stands before the dispatch, and a runner is invoked, only
\* with _initialized true and the agent the runner uses constructed; no runner
\* called by handler raises its "not initialized" error.
C5_NoBypass ==
    \A r \in Requests :
        /\ pc[r] \in {"process", "dispatch"} =>
              /\ _initialized
              /\ AgentOf(RunnerOf(mode[r])) # "None"
              /\ AllAgentsBuilt
        /\ \A i \in DOMAIN calls[r] : ~NotInitializedRaised(calls[r][i])

\* A runner was invoked after an earlier pass had failed half-way.
C5_Witness ==
    /\ \E r \in Requests : init_run[r] = "failed"
    /\ \E r \in Requests :
          /\ calls[r] # <<>>
          /\ calls[r][1].runner = "run_closure_agent"
          /\ ~calls[r][1].ret.raised

-----------------------------------------------------------------------------
\* The last message, as the properties read it

LastContent(msgs) ==
    IF Len(msgs) = 0 THEN <<>> ELSE msg_get(msgs[Len(msgs)], "content", <<>>)
LastIsUser(msgs) == Len(msgs) > 0 /\ msg_get(msgs[Len(msgs)], "role", "") = "user"

LooksLikeObject(c) == startswith(c, LB) /\ endswith(c, RB)

\* No non-empty user text can be extracted from the last message.
NoUserText(msgs) ==
    \/ Len(msgs) = 0
    \/ ~LastIsUser(msgs)
    \/ LastContent(msgs) = <<>>
    \/ /\ LooksLikeObject(LastContent(msgs))
       /\ json_loads(LastContent(msgs)).ok
       /\ ~Truthy(dict_get(json_loads(LastContent(msgs)).obj, <<"text">>, None))

\* The last message is a user message whose content is the JSON payload with
\* the text HelpText and the mode m, the keys in either order.
HasModePayload(msgs, m) ==
    /\ LastIsUser(msgs)
    /\ LastContent(msgs) \in
          { ModePayload(m), Obj2(Pair("mode", JStr(<<m>>)), TextPair) }

\* r made exactly one runner call, to `runner`
OnlyCall(r, runner) == Len(calls[r]) = 1 /\ calls[r][1].runner = runner

-----------------------------------------------------------------------------
\* C6 (as stated): handler always returns a text string, and returns a
\* runner's exception e as "Error: " followed by e.
C6_AlwaysReturnsString ==
    \A r \in Requests :
        pc[r] = "done" =>
            /\ result[r].k = "str"
            /\ \A i \in DOMAIN calls[r] :
                  calls[r][i].ret.raised => result[r] = Str(<<"Error: ">> \o calls[r][i].ret.exc)

\* C7: a call from which no non-empty user text can be extracted returns
\* "No valid user message found" in its first step, leaving the lock, the
\* flag, the agents and the counts of initialization passes and runner calls
\* as they were.
C7_NoTextNoEffect ==
    [][\A r \in Requests :
          (pc[r] = "idle" /\ pc'[r] # "idle" /\ NoUserText(messages'[r])) =>
              /\ pc'[r] = "done"
              /\ result'[r] = Str(<<"No valid user message found">>)
              /\ calls'[r] = <<>>
              /\ init_run'[r] = "none"
              /\ UNCHANGED <<_initialized, _init_lock, init_calls, calls, agents>>
      ]_vars

\* A request without user text has returned while another one holds the lock
\* inside its initialization pass.
C7_Witness ==
    \E r, q \in Requests :
        /\ pc[q] = "init"
        /\ _init_lock = q
        /\ pc[r] = "done"
        /\ NoUserText(messages[r])
        /\ result[r] = NoValidMessage

\* The persona each mode name stands for, with both spellings
PersonaOfMode(m) ==
    CASE m = "therapist" -> "run_therapist_agent"
      [] m = "closure" -> "run_closure_agent"
      [] m \in {"routine", "planner"} -> "run_routine_planner_agent"
      [] m \in {"honest", "honesty"} -> "run_brutal_honesty_agent"
      [] OTHER -> "run_recovery_team"

\* C8 (as stated): the modes therapist, closure, routine or planner, honest or
\* honesty each invoke the runner of that persona alone.
C8_EveryPersonaName ==
    \A r \in Requests :
        \A m \in {"therapist", "closure", "routine", "planner", "honest", "honesty", "team"} :
            (HasModePayload(messages[r], m) /\ calls[r] # <<>>) =>
                OnlyCall(r, PersonaOfMode(m))

\* The runner each mode name selects, with the four spellings of lines 476-482
RunnerOfModeName(m) ==
    CASE m = "therapist" -> "run_therapist_agent"
      [] m = "closure" -> "run_closure_agent"
      [] m = "routine" -> "run_routine_planner_agent"
      [] m = "honest" -> "run_brutal_honesty_agent"
      [] OTHER -> "run_recovery_team"

\* C8 (amended): the modes "therapist", "closure", "routine" and "honest"
\* invoke the runner of that persona alone and handler returns what it
\* returned; "team", and "planner" and "honesty" which the code does not know,
\* invoke the team runner alone and handler returns its coordinator_response.
C8_ExplicitMode ==
    \A r \in Requests :
        \A m \in {"therapist", "closure", "routine", "planner", "honest", "honesty", "team"} :
            HasModePayload(messages[r], m) =>
                /\ pc[r] \in {"process", "dispatch"} => _initialized
                /\ calls[r] # <<>> =>
                      /\ OnlyCall(r, RunnerOfModeName(m))
                      /\ calls[r][1].user_input = Str(HelpText)
                      /\ pc[r] = "done"
                      /\ ~calls[r][1].ret.raised =>
                            result[r] = IF RunnerOfModeName(m) = "run_recovery_team"
                                        THEN calls[r][1].ret.val.coordinator_response
                                        ELSE calls[r][1].ret.val

\* The closure payload was answered by the closure agent's text.
C8_Witness ==
    \E r \in Requests :
        /\ HasModePayload(messages[r], "closure")
        /\ OnlyCall(r, "run_closure_agent")
        /\ pc[r] = "done"
        /\ result[r] = Str(<<"reply of ", "Closure agent">>)

-----------------------------------------------------------------------------
\* The modes the dispatch knows besides the default
RecognisedModes == { Str(<<"therapist">>), Str(<<"closure">>), Str(<<"routine">>),
                     Str(<<"honest">>) }

IsPlainText(msgs) ==
    LastIsUser(msgs) /\ LastContent(msgs) # <<>> /\ ~LooksLikeObject(LastContent(msgs))

\* A JSON payload with a non-empty text, no images, and a mode that is absent
\* or none of the recognised ones.
IsPayloadWithoutKnownMode(msgs) ==
    /\ LastIsUser(msgs)
    /\ LooksLikeObject(LastContent(msgs))
    /\ LET parsed == json_loads(LastContent(msgs)) IN
       /\ parsed.ok
       /\ Truthy(dict_get(parsed.obj, <<"text">>, None))
       /\ dict_get(parsed.obj, <<"images">>, None) = None
       /\ dict_get(parsed.obj, <<"mode">>, None) \notin RecognisedModes

TextOf(msgs) ==
    IF LooksLikeObject(LastContent(msgs))
    THEN dict_get(json_loads(LastContent(msgs)).obj, <<"text">>, None)
    ELSE Str(LastContent(msgs))

\* C9: for plain text, and for a JSON payload whose mode is absent or not
\* recognised, handler invokes the team runner alone, with the extracted user
\* text and an empty image list, and returns its coordinator_response.
C9_DefaultIsTeam ==
    \A r \in Requests :
        (IsPlainText(messages[r]) \/ IsPayloadWithoutKnownMode(messages[r])) =>
            /\ pc[r] = "dispatch" => images[r] = <<>>
            /\ calls[r] # <<>> =>
                  /\ OnlyCall(r, "run_recovery_team")
                  /\ calls[r][1].user_input = TextOf(messages[r])
                  /\ calls[r][1].images = <<>>
                  /\ pc[r] = "done"
                  /\ ~calls[r][1].ret.raised =>
                        result[r] = calls[r][1].ret.val.coordinator_response

\* A payload without a mode key was answered by the team's text.
C9_Witness ==
    \E r \in Requests :
        /\ LastContent(messages[r]) = Obj1(TextPair)
        /\ IsPayloadWithoutKnownMode(messages[r])
        /\ OnlyCall(r, "run_recovery_team")
        /\ calls[r][1].user_input = Str(HelpText)
        /\ result[r] = Str(<<"reply of ", "Recovery team">>)

\* C10 (as stated): plain text that names a plan or a recovery, or is longer
\* than 20 words, gets the full report; any other plain text is answered by
\* the therapist alone.
C10_WordHeuristic ==
    \A r \in Requests :
        (IsPlainText(messages[r]) /\ calls[r] # <<>>) =>
            IF WantsFullReport(LastContent(messages[r]))
            THEN OnlyCall(r, "run_recovery_team")
            ELSE OnlyCall(r, "run_therapist_agent")

\* C10 (amended): plain text is routed to the team whatever its words and
\* its length: also a short text that names neither a plan nor a recovery
\* selects mode "team", and the therapist runner is not invoked for it.
C10_PlainTextIgnoresWords ==
    \A r \in Requests :
        IsPlainText(messages[r]) =>
            /\ mode[r] = Str(<<"team">>)
            /\ \A i \in DOMAIN calls[r] : calls[r][i].runner = "run_recovery_team"
            /\ pc[r] = "done" => Len(calls[r]) <= 1

\* A five-word text without "plan" or "recovery" went to the team.
C10_Witness ==
    \E r \in Requests :
        /\ IsPlainText(messages[r])
        /\ Len(LastContent(messages[r])) = 5
        /\ ~WantsFullReport(LastContent(messages[r]))
        /\ OnlyCall(r, "run_recovery_team")
        /\ pc[r] = "done"

-----------------------------------------------------------------------------
\* A member agent's run raised inside this call of the team
MemberRaised(call) == call.runner = "run_recovery_team" /\ call.outcome = "member_raise"

IsErrorString(v) == v.k = "str" /\ IsPrefix(<<"Error: ">>, v.s)

\* C11 (as stated): in team mode, when one persona invocation raises, the
\* request still succeeds: the response is not replaced by an error.
C11_PartialFailureTolerated ==
    \A r \in Requests :
        \A i \in DOMAIN calls[r] :
            (MemberRaised(calls[r][i]) /\ pc[r] = "done") => ~IsErrorString(result[r])

\* C11 (amended): in team mode handler makes one call, to the team runner,
\* and catches nothing per persona: when a persona invocation raises inside
\* that call and the exception leaves it, handler returns "Error: " followed
\* by the exception in place of the whole response, and does not raise.
C11_TeamFailureIsWholeError ==
    \A r \in Requests :
        \A i \in DOMAIN calls[r] :
            (calls[r][i].runner = "run_recovery_team"
                /\ calls[r][i].outcome \in {"raise", "member_raise"}) =>
                /\ Len(calls[r]) = 1
                /\ pc[r] = "done"
                /\ calls[r][i].ret.raised
                /\ IsErrorString(result[r])
                /\ result[r] = Str(<<"Error: ">> \o calls[r][i].ret.exc)

\* The closure agent raised inside the team's run and the request returned
\* the error string.
C11_Witness ==
    \E r \in Requests :
        /\ Len(calls[r]) = 1
        /\ MemberRaised(calls[r][1])
        /\ pc[r] = "done"
        /\ result[r] = Str(<<"Error: ", "Closure agent", " call failed">>)

-----------------------------------------------------------------------------
PersonaRunners == <<"run_therapist_agent", "run_closure_agent",
                    "run_routine_planner_agent", "run_brutal_honesty_agent">>

TeamMode(r) == RunnerOf(mode[r]) = "run_recovery_team"

BuiltValue(name) ==
    CASE name = "therapist_agent" -> therapist_agent
      [] name = "closure_agent" -> closure_agent
      [] name = "routine_planner_agent" -> routine_planner_agent
      [] name = "brutal_honesty_agent" -> brutal_honesty_agent
      [] OTHER -> recovery_team

\* C12 (as stated): a request answered in team mode has invoked the four
\* persona runners, and its text is their four texts in the order therapist,
\* closure, planner, honesty.
C12_FourSectionsInOrder ==
    \A r \in Requests :
        (TeamMode(r) /\ pc[r] = "done" /\ calls[r] # <<>> /\ ~IsErrorString(result[r])) =>
            /\ Len(calls[r]) >= 4
            /\ \A i \in 1..4 : calls[r][i].runner = PersonaRunners[i]
            /\ result[r].k = "str"
            /\ result[r].s = calls[r][1].ret.val.s \o calls[r][2].ret.val.s
                             \o calls[r][3].ret.val.s \o calls[r][4].ret.val.s

\* C12 (amended): in team mode handler invokes no persona runner: it makes
\* one call, to the team runner, and returns the coordinator's content as it
\* is, composing no sections.  The order therapist, closure, planner, honesty
\* is only that of the members the team is constructed with, all of them
\* constructed before it, on the same model.
C12_OneTeamCall ==
    /\ \A r \in Requests :
          (TeamMode(r) /\ calls[r] # <<>>) =>
              /\ Len(calls[r]) = 1
              /\ calls[r][1].runner = "run_recovery_team"
              /\ \A i \in DOMAIN calls[r] :
                    \A j \in DOMAIN PersonaRunners : calls[r][i].runner # PersonaRunners[j]
              /\ ~calls[r][1].ret.raised =>
                    result[r] = calls[r][1].ret.val.coordinator_response
    /\ recovery_team # "None" =>
          \A j \in DOMAIN TeamMembers : BuiltValue(TeamMembers[j]) = recovery_team
    /\ \A j \in DOMAIN TeamMembers : TeamMembers[j] = BuildOrder[j]

\* A plain text was answered with the coordinator's text after one call, on a
\* team whose four members exist.
C12_Witness ==
    \E r \in Requests :
        /\ IsPlainText(messages[r])
        /\ TeamMode(r)
        /\ Len(calls[r]) = 1
        /\ calls[r][1].outcome = "text"
        /\ result[r] = Str(<<"reply of ", "Recovery team">>)
        /\ \A j \in DOMAIN TeamMembers : BuiltValue(TeamMembers[j]) = recovery_team

-----------------------------------------------------------------------------
NoAgentBuilt ==
    /\ therapist_agent = "None"
    /\ closure_agent = "None"
    /\ routine_planner_agent = "None"
    /\ brutal_honesty_agent = "None"
    /\ recovery_team = "None"

ApiKeyMessage == <<"API key must be set before initializing agents">>

HasImagesPayload(msgs) ==
    /\ LastIsUser(msgs)
    /\ LastContent(msgs) = Obj2(TextPair, Pair("images", <<LBR, FILE, RBR>>))

\* C13: a request whose initialization pass failed has returned the string
\* 'Error: Failed to initialize agents: ' followed by the failure message, has
\* processed no image and has invoked no runner; with an empty api_key the
\* pass fails with the key's message and no agent is ever constructed.
C13_InitFailureReturned ==
    /\ \A r \in Requests :
          init_run[r] = "failed" =>
              /\ pc[r] = "done"
              /\ IsInitError(result[r])
              /\ Len(result[r].s) > 2
              /\ result[r] \in { InitErrorString(ApiKeyMessage),
                                 InitErrorString(<<"constructor failed">>) }
              /\ images[r] = <<>>
              /\ calls[r] = <<>>
    /\ api_key = <<>> =>
          /\ NoAgentBuilt
          /\ ~_initialized
          /\ \A r \in Requests :
                /\ ~PastLock(r)
                /\ init_run[r] # "ok"
                /\ init_run[r] = "failed" => result[r] = InitErrorString(ApiKeyMessage)

\* Without a key, a request that carried an image has returned the failure.
C13_Witness ==
    \E r \in Requests :
        /\ api_key = <<>>
        /\ HasImagesPayload(messages[r])
        /\ Truthy(images_data[r])
        /\ init_run[r] = "failed"
        /\ result[r] = Str(<<"Error: ", "Failed to initialize agents: ">> \o ApiKeyMessage)

-----------------------------------------------------------------------------
SameLast(m1, m2) == Len(m1) > 0 /\ Len(m2) > 0 /\ m1[Len(m1)] = m2[Len(m2)]

LocalsOf(r) ==
    [user_input |-> user_input[r], images_data |-> images_data[r], mode |-> mode[r]]

\* What handler decides after the extraction: the early return, or the runner
\* and the text it is given.
Decision(x) ==
    IF ~Truthy(x.user_input) THEN <<"return", NoValidMessage>>
    ELSE <<RunnerOf(x.mode), x.user_input>>

Started(r) == pc[r] # "idle"

\* C14: only the last message is consulted.  The text, mode and images a
\* request extracted, and its dispatch decision, are those of every message
\* list with the same last message, and two requests with the same last
\* message agree on them and on the runner and text of their calls; when the
\* last message is not a user message no earlier user message is used and the
\* request returns without a call; the text given to the runner is the one of
\* the last message whatever precedes it.
C14_OnlyLastMessage ==
    /\ \A r \in Requests :
          Started(r) =>
              /\ \A m \in AllMessageLists :
                    SameLast(m, messages[r]) =>
                        /\ Extract(m) = LocalsOf(r)
                        /\ Decision(Extract(m)) = Decision(LocalsOf(r))
              /\ (Len(messages[r]) > 0 /\ ~LastIsUser(messages[r])) =>
                    /\ LocalsOf(r) = DefaultLocals
                    /\ pc[r] = "done"
                    /\ result[r] = NoValidMessage
                    /\ calls[r] = <<>>
              /\ \A i \in DOMAIN calls[r] :
                    /\ LastIsUser(messages[r])
                    /\ calls[r][i].runner = Decision(LocalsOf(r))[1]
                    /\ calls[r][i].user_input = Decision(LocalsOf(r))[2]
                    /\ ~LooksLikeObject(LastContent(messages[r])) =>
                          calls[r][i].user_input = Str(LastContent(messages[r]))
    /\ \A r, q \in Requests :
          (Started(r) /\ Started(q) /\ SameLast(messages[r], messages[q])) =>
              /\ LocalsOf(r) = LocalsOf(q)
              /\ (calls[r] # <<>> /\ calls[q] # <<>>) =>
                    /\ calls[r][1].runner = calls[q][1].runner
                    /\ calls[r][1].user_input = calls[q][1].user_input

\* Two requests with the same last message, one of them after a system
\* message, gave the same text to the same runner.
C14_Witness ==
    \E r, q \in Requests :
        /\ messages[r] = <<System(<<"You", "are", "helpful">>), User(<<"Test">>)>>
        /\ messages[q] = <<User(<<"Test">>)>>
        /\ calls[r] # <<>>
        /\ calls[q] # <<>>
        /\ calls[r][1].user_input = Str(<<"Test">>)
        /\ calls[q][1].user_input = Str(<<"Test">>)
        /\ calls[r][1].runner = "run_recovery_team"

-----------------------------------------------------------------------------
\* The five globals hold one complete set, constructed on one model.
OneCompleteSet ==
    /\ AllAgentsBuilt
    /\ \A j \in DOMAIN BuildOrder : BuiltValue(BuildOrder[j]) = recovery_team

\* C15: once _initialized is true no request executes initialize_agents
\* again and the five agent and team globals are never reassigned: from then
\* on they hold the one complete set that the single successful pass
\* constructed.
C15_RegistryReadOnly ==
    /\ [](_initialized =>
            /\ OneCompleteSet
            /\ \A r \in Requests : pc[r] # "init"
            /\ Cardinality({r \in Requests : init_run[r] = "ok"}) = 1)
    /\ [][_initialized =>
            /\ _initialized'
            /\ init_calls' = init_calls
            /\ init_run' = init_run
            /\ UNCHANGED agents
            /\ \A r \in Requests : pc'[r] # "init"]_vars

\* After the pass of one request, another request found the flag set, ran no
\* pass and had its runner answer on the same set.
C15_Witness ==
    \E r, q \in Requests :
        /\ _initialized
        /\ init_run[r] = "ok"
        /\ init_run[q] = "none"
        /\ calls[r] # <<>>
        /\ calls[q] # <<>>
        /\ ~calls[q][1].ret.raised
        /\ init_calls = 1
        /\ OneCompleteSet

-----------------------------------------------------------------------------
\* The last message is a user message whose content has the braces of an
\* object and does not parse.
IsMalformed(msgs) ==
    /\ LastIsUser(msgs)
    /\ LooksLikeObject(LastContent(msgs))
    /\ ~json_loads(LastContent(msgs)).ok

\* C16: a content that looks like a JSON object and fails to parse is taken
\* whole as the user text, with no images and the mode "team"; the request
\* does not return at the extraction but goes on to the lock, and the only
\* runner it calls is the team's, with that text and no images.
C16_MalformedIsPlainText ==
    \A r \in Requests :
        (Started(r) /\ IsMalformed(messages[r])) =>
            /\ user_input[r] = Str(LastContent(messages[r]))
            /\ Truthy(user_input[r])
            /\ images_data[r] = List(<<>>)
            /\ mode[r] = Str(<<"team">>)
            /\ images[r] = <<>>
            /\ result[r] # NoValidMessage
            /\ pc[r] = "done" => (calls[r] # <<>> \/ IsInitError(result[r]))
            /\ \A i \in DOMAIN calls[r] :
                  /\ calls[r][i].runner = "run_recovery_team"
                  /\ calls[r][i].user_input = Str(LastContent(messages[r]))
                  /\ calls[r][i].images = <<>>

\* The content with a comma before the closing brace was answered by the team.
C16_Witness ==
    \E r \in Requests :
        /\ LastContent(messages[r]) = <<LB>> \o TextPair \o <<COMMA, RB>>
        /\ IsMalformed(messages[r])
        /\ Len(calls[r]) = 1
        /\ calls[r][1].user_input = Str(<<LB>> \o TextPair \o <<COMMA, RB>>)
        /\ result[r] = Str(<<"reply of ", "Recovery team">>)

-----------------------------------------------------------------------------
\* r is inside the `async with _init_lock` block
HoldsLock(r) == _init_lock = r

\* C17: the lock is held exactly while a request awaits initialize_agents
\* under it, by one request at a time; it is free after every exit of the
\* block (flag found set, pass succeeded, pass failed and the request
\* returned) and is never held while images are processed, a runner executes
\* or after the return.  A request stops waiting only by being granted the
\* free lock, a request that was started stays started, and one that returned
\* has its response; under fair scheduling there comes a point from which
\* every request that was ever started has returned, none waiting for the
\* lock or holding it.
C17_LockScopeAndProgress ==
    /\ [](\A r \in Requests :
            /\ HoldsLock(r) <=> pc[r] = "init"
            /\ pc[r] \in {"process", "dispatch", "done"} => ~HoldsLock(r))
    /\ [][\A r \in Requests :
            /\ (pc[r] \in {"acquire", "init"} /\ pc'[r] \in {"process", "done"}) =>
                  _init_lock' = 0
            /\ (pc[r] = "acquire" /\ pc'[r] # "acquire") =>
                  (_init_lock = 0 /\ pc'[r] \in {"init", "process"})
            /\ (pc[r] = "done" \/ pc'[r] = "done") =>
                  (pc'[r] = "done" /\ result'[r] # Pending)
            /\ Started(r) => pc'[r] # "idle"]_vars
    /\ <>[](\A r \in Requests : pc[r] \in {"idle", "done"})

\* A request that waited behind a failed pass was granted the lock and
\* returned the answer of its runner, with the lock free.
C17_Witness ==
    \E r, q \in Requests :
        /\ init_run[r] = "failed"
        /\ waited_on_fail[q]
        /\ pc[q] = "done"
        /\ calls[q] # <<>>
        /\ _init_lock = 0

====
